---- MODULE Spec2Model ----
(***************************************************************************)
(* kpfr: interactive selection of a Kubernetes context, namespace, service *)
(* and port mapping, persistence of the choices, and supervision of the    *)
(* `kubectl port-forward` child process (src/src/main.rs and friends).     *)
(*                                                                         *)
(* Option<T> is modelled as a sequence of length 0 (None) or 1 (Some).     *)
(* HashMap<K,V> is modelled as a function with a finite domain.            *)
(* JSON object keys of the port maps are strings; a string is modelled as  *)
(* a sequence of character codes: 0..9 are the decimal digits, any other   *)
(* number is a non-digit character.                                        *)
(***************************************************************************)
EXTENDS Integers, Sequences, FiniteSets, TLC

\* Largest number of interrupt signals the environment delivers in one run.
MaxInterrupts == 2

(***************************************************************************)
(* Options and maps                                                        *)
(***************************************************************************)
None == <<>>
Some(x) == <<x>>
IsSome(o) == Len(o) = 1
EmptyMap == [k \in {} |-> 0]
MapInsert(m, k, v) == [x \in (DOMAIN m) \cup {k} |-> IF x = k THEN v ELSE m[x]]

\* Iterator::position: index of the first element equal to x, as an Option.
Position(list, x) ==
    IF \E i \in 1..Len(list) : list[i] = x
    THEN Some(CHOOSE i \in 1..Len(list) :
                 /\ list[i] = x
                 /\ \A j \in 1..(i - 1) : list[j] /= x)
    ELSE None

(***************************************************************************)
(* Preference store: serde_json (de)serialisation of the record            *)
(***************************************************************************)
\* u16 -> decimal string (a HashMap<u16,_> key is written as a JSON string)
RECURSIVE U16ToString(_)
U16ToString(n) == IF n < 10 THEN <<n>> ELSE Append(U16ToString(n \div 10), n % 10)

RECURSIVE DigitsValue(_)
DigitsValue(s) ==
    IF s = <<>> THEN 0
    ELSE 10 * DigitsValue(SubSeq(s, 1, Len(s) - 1)) + s[Len(s)]

\* decimal string -> u16, as serde_json parses a numeric map key: digits
\* only, no leading zero, value within u16
ParseU16(s) ==
    IF \/ s = <<>>
       \/ \E i \in 1..Len(s) : s[i] \notin 0..9
       \/ (Len(s) > 1 /\ s[1] = 0)
       \/ Len(s) > 5
    THEN None
    ELSE IF DigitsValue(s) > 65535 THEN None ELSE Some(DigitsValue(s))

\* A JSON port object {"8080": 9090} deserialises to HashMap<u16,u16> iff
\* every key and every value is a u16.
PortObjectOk(obj) ==
    \A k \in DOMAIN obj : IsSome(ParseU16(k)) /\ obj[k] \in 0..65535

ParsePortObject(obj) ==
    [p \in {ParseU16(k)[1] : k \in DOMAIN obj} |->
        obj[CHOOSE k \in DOMAIN obj : ParseU16(k) = Some(p)]]

\* The body of a file that holds no JSON object.
NoBody == [namespace |-> None, lastService |-> None, ports |-> None]

\* Mutant of Read: a port object that does not parse is skipped instead of
\* failing the whole document
Read_Lenient(f) ==
    IF f.kind /= "json" THEN None
    ELSE Some([namespace    |-> f.body.namespace,
               last_service |-> f.body.lastService,
               ports        |-> IF IsSome(f.body.ports)
                                THEN Some([s \in {t \in DOMAIN f.body.ports[1] :
                                                    PortObjectOk(f.body.ports[1][t])} |->
                                             ParsePortObject(f.body.ports[1][s])])
                                ELSE None])

\* DefaultSelections::read: None when the file cannot be opened or is not
\* a JSON document of the expected shape, else Some(DefaultSelections).
Read(f) ==
    IF f.kind /= "json" THEN None
    ELSE IF /\ IsSome(f.body.ports)
            /\ \E s \in DOMAIN f.body.ports[1] : ~PortObjectOk(f.body.ports[1][s])
    THEN None
    ELSE Some([namespace    |-> f.body.namespace,
               last_service |-> f.body.lastService,
               ports        |-> IF IsSome(f.body.ports)
                                THEN Some([s \in DOMAIN f.body.ports[1] |->
                                             ParsePortObject(f.body.ports[1][s])])
                                ELSE None])

\* serde_json::to_string_pretty of a SelectionWithService (camelCase keys)
Serialize(sel) ==
    [kind |-> "json",
     body |-> [namespace   |-> Some(sel.namespace),
               lastService |-> Some(sel.last_service),
               ports       |-> Some([s \in DOMAIN sel.ports |->
                                  [k \in {U16ToString(p) : p \in DOMAIN sel.ports[s]} |->
                                      sel.ports[s][ParseU16(k)[1]]]])]]

\* Mutant of FromDefaults: the persisted port mappings are not taken over
FromDefaults_NoPorts(ns, d) == [namespace |-> ns.name, ports |-> EmptyMap]

\* Selection::from_defaults
FromDefaults(ns, d) ==
    [namespace |-> ns.name,
     ports     |-> IF IsSome(d) /\ IsSome(d[1].ports) THEN d[1].ports[1] ELSE EmptyMap]

\* Mutant of SetLastService: the service name is not taken over
SetLastService_Stale(sel, svc) ==
    [namespace |-> sel.namespace, ports |-> sel.ports, last_service |-> sel.last_service]

\* Selection::set_last_service
SetLastService(sel, svc) ==
    [namespace |-> sel.namespace, ports |-> sel.ports, last_service |-> svc.name]

\* SelectionWithService::ports_for: entry(name).or_default() inserts an
\* empty mapping for a service that has none; yields the changed record.
PortsFor(sel, svc) ==
    IF svc.name \in DOMAIN sel.ports THEN sel
    ELSE [sel EXCEPT !.ports = MapInsert(sel.ports, svc.name, EmptyMap)]

(***************************************************************************)
(* Selection pipeline: pure parts                                          *)
(***************************************************************************)
\* Mutant of NeedsChooser: the chooser is shown for a single option too
NeedsChooser_AnyOption(list) == Len(list) >= 1

\* `list.len() > 1`: the chooser is shown only for more than one option
NeedsChooser(list) == Len(list) > 1

\* Mutant of DefaultIdx: a persisted value always preselects the first option
DefaultIdx_First(names, default) == IF IsSome(default) THEN Some(1) ELSE None

\* Default index of a fuzzy chooser: default.and_then(position of it)
DefaultIdx(names, default) ==
    IF IsSome(default) THEN Position(names, default[1]) ELSE None

Names(list) == [i \in 1..Len(list) |-> list[i].name]

\* select_remote_ports: the (port, checked) items
PortItems(svc, default_ports) ==
    [i \in 1..Len(svc.ports) |->
        [port |-> svc.ports[i], checked |-> svc.ports[i] \in DOMAIN default_ports]]

\* Mutant of AsksRemotePorts: the checklist (of the first port) is shown
\* for every service that has a port
AsksRemotePorts_AnyPort(items) == Len(items) >= 1

\* select_remote_ports: `ports.len() == 1` asks, anything else takes all
AsksRemotePorts(items) == Len(items) = 1
\* Mutant of AllPorts: only the ports found in the persisted mapping
AllPorts_OnlyChecked(items) ==
    LET kept == SelectSeq(items, LAMBDA it : it.checked)
    IN [i \in 1..Len(kept) |-> kept[i].port]

AllPorts(items) == [i \in 1..Len(items) |-> items[i].port]

\* Mutant of LocalPortDefault: the remote port itself is offered
LocalPortDefault_SamePort(service_ports, port) == Some(port)

\* select_local_ports: default of the prompt for one remote port
LocalPortDefault(service_ports, port) ==
    IF port \in DOMAIN service_ports THEN Some(service_ports[port]) ELSE None

(***************************************************************************)
(* Environment: what the cluster tool, the user and the disk can answer    *)
(***************************************************************************)
ContextLists == {<<>>, <<"c1">>, <<"c1", "c2">>}
CurrentContexts == {"c2", "zz"}

Ns(n) == [name |-> n]
NamespaceLists == {<<>>, <<Ns("dev")>>, <<Ns("dev"), Ns("prod")>>}

Svc(n, ps) == [name |-> n, ports |-> ps]
Api == Svc("api", <<8080, 9090>>)
Web == Svc("web", <<80>>)
Dns == Svc("dns", <<53, 53>>)
Db  == Svc("db", <<>>)
ServiceLists == {<<>>, <<Api>>, <<Web>>, <<Db>>, <<Api, Web>>, <<Dns, Web>>}

\* Numbers the user may type at a local-port prompt
TypedPorts == {3000, 9090}

JsonFile(ns, last, ports) ==
    [kind |-> "json", body |-> [namespace |-> ns, lastService |-> last, ports |-> ports]]
PlainFile(k) == [kind |-> k, body |-> NoBody]

\* Preference files the run may find at startup
InitFiles ==
    { PlainFile("absent"), PlainFile("unreadable"), PlainFile("malformed"),
      JsonFile(None, None, None),
      JsonFile(Some("dev"), Some("api"),
               Some([s \in {"api"} |-> [k \in {<<8, 0, 8, 0>>} |-> 9090]])),
      JsonFile(Some("dev"), Some("api"),
               Some([s \in {"api"} |-> [k \in {<<8, 0, 8, 0>>, <<0, 8, 0>>} |-> 9090]])),
      JsonFile(Some("dev"), Some("web"),
               Some([s \in {"web"} |-> [k \in {<<8, 0>>} |-> 70000]])),
      JsonFile(Some("gone"), Some("web"),
               Some([s \in {"web", "old", "dns"} |->
                       IF s = "web" THEN [k \in {<<8, 0>>} |-> 3000]
                       ELSE IF s = "dns" THEN [k \in {<<5, 3>>} |-> 5353]
                       ELSE [k \in {<<1>>, <<8, 0, 8, 0>>} |-> 2]])),
      JsonFile(Some("dev"), Some("web"),
               Some([s \in {"web"} |-> [k \in {<<8, 0>>, <<4, 4, 3>>} |-> 3000]])),
      JsonFile(Some("prod"), None,
               Some([s \in {"api", "old"} |->
                       IF s = "api" THEN [k \in {<<9, 0, 9, 0>>} |-> 3000]
                       ELSE [k \in {<<1>>} |-> 2]])) }

(***************************************************************************)
(* State                                                                   *)
(***************************************************************************)
VARIABLES
    file,          \* content of config.json on disk
    defaults,      \* Option<DefaultSelections> read at startup
    pc,            \* position of the main thread
    contexts, current_ctx, ctx_idx,
    namespaces, namespace,
    services, service,
    selection,     \* the in-memory Selection / SelectionWithService
    remote_ports, ports_mapping,
    forward_args,  \* the <local>:<remote> arguments given to port-forward
    exit, err,     \* exit status of the process and the error printed
    child,         \* the port-forward subprocess
    running,       \* the AtomicBool shared with the Ctrl-C handler
    handler,       \* TRUE once ctrlc::set_handler succeeded
    hpc,           \* position of the ctrlc thread inside the handler
    pending,       \* interrupts delivered and not yet handled
    interrupts,    \* interrupts delivered so far
    calls,         \* per operation, how many times it has been performed
    log,           \* external operations performed, in order
    prompts        \* interactive prompts shown, in order

storeVars == <<file, defaults>>
ctxVars   == <<contexts, current_ctx, ctx_idx>>
nsVars    == <<namespaces, namespace>>
svcVars   == <<services, service>>
portVars  == <<remote_ports, ports_mapping, forward_args>>
exitVars  == <<exit, err>>
supVars   == <<child, running, handler, hpc, pending, interrupts, calls>>
vars == <<file, defaults, pc, contexts, current_ctx, ctx_idx, namespaces,
          namespace, services, service, selection, remote_ports,
          ports_mapping, forward_args, exit, err, child, running, handler, hpc, pending,
          interrupts, calls, log, prompts>>

NoError == [kind |-> "", arg |-> ""]
Error(k) == [kind |-> k, arg |-> ""]
NoCalls == [op \in {"kill", "sigkill", "wait", "reap", "notice", "store"} |-> 0]
Count(op) == calls[op]
Called(op) == [calls EXCEPT ![op] = @ + 1]

\* One interactive prompt: its stage, the remote port it is about (0 for a
\* chooser), the default it was given, how the user left it ("abort": the
\* interaction failed, "default": the default was accepted with no input,
\* "input": an explicit choice) and the explicit choice made, if any (an
\* index, a number of checked items, or a typed port).
Prompt(stage, port, default, how, answer) ==
    [stage |-> stage, port |-> port, default |-> default, how |-> how,
     answer |-> answer]

Init ==
    /\ file \in InitFiles
    /\ defaults = None
    /\ pc = "read"
    /\ contexts = <<>> /\ current_ctx = "" /\ ctx_idx = 0
    /\ namespaces = <<>> /\ namespace = Ns("")
    /\ services = <<>> /\ service = Svc("", <<>>)
    /\ selection = [namespace |-> "", ports |-> EmptyMap, last_service |-> ""]
    /\ remote_ports = <<>> /\ ports_mapping = EmptyMap /\ forward_args = {}
    /\ exit = "none" /\ err = NoError
    /\ child = "none" /\ running = TRUE /\ handler = FALSE
    /\ hpc = "idle" /\ pending = 0 /\ interrupts = 0
    /\ calls = NoCalls
    /\ log = <<>> /\ prompts = <<>>

\* fail(e): print the error, ExitCode::FAILURE
Fail(e) == pc' = "done" /\ exit' = "failure" /\ err' = e
\* a panicking unwrap()/expect() on the main thread
Panic == pc' = "done" /\ exit' = "panic" /\ err' = Error("panic")

(***************************************************************************)
(* main: startup and the context stage                                     *)
(***************************************************************************)
\* DefaultSelections::read(&filename)
ReadDefaults ==
    /\ pc = "read"
    /\ defaults' = Read(file)
    /\ pc' = "ctx_get"
    /\ log' = Append(log, "read")
    /\ UNCHANGED <<file, ctxVars, nsVars, svcVars, selection, portVars,
                   exitVars, supVars, prompts>>

\* Mutant of ContextGet: the is_empty check is missing
ContextGet_NoEmptyCheck ==
    /\ pc = "ctx_get"
    /\ log' = Append(log, "get_contexts")
    /\ \/ /\ Fail(Error("KubectlFailed"))
          /\ UNCHANGED contexts
       \/ \E list \in ContextLists :
            /\ contexts' = list
            /\ pc' = "ctx_current" /\ UNCHANGED exitVars
    /\ UNCHANGED <<storeVars, current_ctx, ctx_idx, nsVars, svcVars, selection,
                   portVars, supVars, prompts>>

\* preselect_context: context::get()? and the is_empty check
ContextGet ==
    /\ pc = "ctx_get"
    /\ log' = Append(log, "get_contexts")
    /\ \/ /\ Fail(Error("KubectlFailed"))
          /\ UNCHANGED contexts
       \/ \E list \in ContextLists :
            /\ contexts' = list
            /\ IF list = <<>>
               THEN Fail(Error("NoContext"))
               ELSE pc' = "ctx_current" /\ UNCHANGED exitVars
    /\ UNCHANGED <<storeVars, current_ctx, ctx_idx, nsVars, svcVars, selection,
                   portVars, supVars, prompts>>

\* preselect_context: context::current().unwrap_or("")
ContextCurrent ==
    /\ pc = "ctx_current"
    /\ \/ /\ current_ctx' = ""
          /\ log' = log \o <<"current_context", "current_context_failed">>
       \/ \E c \in CurrentContexts :
            /\ current_ctx' = c
            /\ log' = Append(log, "current_context")
    /\ pc' = IF NeedsChooser(contexts) THEN "ctx_choose" ELSE "ns_get"
    /\ UNCHANGED <<storeVars, contexts, ctx_idx, nsVars, svcVars, selection,
                   portVars, exitVars, supVars, prompts>>

\* preselect_context: the fuzzy chooser
ContextChoose ==
    /\ pc = "ctx_choose"
    /\ log' = Append(log, "choose_context")
    /\ \/ /\ prompts' = Append(prompts,
                 Prompt("context", 0, Position(contexts, current_ctx), "abort", None))
          /\ Fail(Error("InvalidSelection"))
          /\ UNCHANGED ctx_idx
       \/ \E i \in 1..Len(contexts) :
            /\ prompts' = Append(prompts,
                 Prompt("context", 0, Position(contexts, current_ctx), "input", Some(i)))
            /\ ctx_idx' = i
            /\ pc' = "ctx_set"
            /\ UNCHANGED exitVars
    /\ UNCHANGED <<storeVars, contexts, current_ctx, nsVars, svcVars, selection,
                   portVars, supVars>>

\* preselect_context: context::set(..).expect("Failed to select context")
ContextSet ==
    /\ pc = "ctx_set"
    /\ log' = Append(log, "set_context")
    /\ \/ Panic
       \/ pc' = "ns_get" /\ UNCHANGED exitVars
    /\ UNCHANGED <<storeVars, ctxVars, nsVars, svcVars, selection, portVars,
                   supVars, prompts>>

(***************************************************************************)
(* main: the namespace and service stages                                  *)
(***************************************************************************)
DefaultNamespace == IF IsSome(defaults) THEN defaults[1].namespace ELSE None
DefaultService == IF IsSome(defaults) THEN defaults[1].last_service ELSE None

\* main.rs 187: the namespace is chosen, Selection::from_defaults
NamespaceChosen(ns) ==
    /\ namespace' = ns
    /\ selection' = FromDefaults(ns, defaults) @@ [last_service |-> ""]
    /\ pc' = "svc_get"

\* select_namespace: namespace::get()?, the is_empty check, and the single
\* namespace taken without a chooser
NamespaceGet ==
    /\ pc = "ns_get"
    /\ log' = Append(log, "get_namespaces")
    /\ \/ /\ Fail(Error("KubectlFailed"))
          /\ UNCHANGED <<namespaces, namespace, selection>>
       \/ \E list \in NamespaceLists :
            /\ namespaces' = list
            /\ IF list = <<>>
               THEN Fail(Error("NoNamespace")) /\ UNCHANGED <<namespace, selection>>
               ELSE IF NeedsChooser(list)
               THEN pc' = "ns_choose" /\ UNCHANGED <<namespace, selection, exitVars>>
               ELSE NamespaceChosen(list[1]) /\ UNCHANGED exitVars
    /\ UNCHANGED <<storeVars, ctxVars, svcVars, portVars, supVars, prompts>>

\* select_namespace: the fuzzy chooser
NamespaceChoose ==
    /\ pc = "ns_choose"
    /\ log' = Append(log, "choose_namespace")
    /\ \/ /\ prompts' = Append(prompts, Prompt("namespace", 0,
                 DefaultIdx(Names(namespaces), DefaultNamespace), "abort", None))
          /\ Fail(Error("InvalidSelection"))
          /\ UNCHANGED <<namespace, selection>>
       \/ \E i \in 1..Len(namespaces) :
            /\ prompts' = Append(prompts, Prompt("namespace", 0,
                 DefaultIdx(Names(namespaces), DefaultNamespace), "input", Some(i)))
            /\ NamespaceChosen(namespaces[i])
            /\ UNCHANGED exitVars
    /\ UNCHANGED <<storeVars, ctxVars, namespaces, svcVars, portVars, supVars>>

\* main.rs 195-198: the service is chosen, set_last_service and ports_for
ServiceChosen(svc) ==
    /\ service' = svc
    /\ selection' = PortsFor(SetLastService(selection, svc), svc)
    /\ pc' = "remote_ports"

\* select_service: service::get(namespace)?, the is_empty check, and the
\* single service taken without a chooser
ServiceGet ==
    /\ pc = "svc_get"
    /\ log' = Append(log, "get_services")
    /\ \/ /\ Fail(Error("KubectlFailed"))
          /\ UNCHANGED <<services, service, selection>>
       \/ \E list \in ServiceLists :
            /\ services' = list
            /\ IF list = <<>>
               THEN /\ Fail([kind |-> "NoService", arg |-> namespace.name])
                    /\ UNCHANGED <<service, selection>>
               ELSE IF NeedsChooser(list)
               THEN pc' = "svc_choose" /\ UNCHANGED <<service, selection, exitVars>>
               ELSE ServiceChosen(list[1]) /\ UNCHANGED exitVars
    /\ UNCHANGED <<storeVars, ctxVars, nsVars, portVars, supVars, prompts>>

\* Mutant of ServiceChoose: an aborted chooser saves the progress so far
ServiceChoose_SavesOnAbort ==
    /\ pc = "svc_choose"
    /\ log' = Append(log, "choose_service")
    /\ \/ /\ prompts' = Append(prompts, Prompt("service", 0,
                 DefaultIdx(Names(services), DefaultService), "abort", None))
          /\ Fail(Error("InvalidSelection"))
          /\ file' = Serialize(selection)
          /\ UNCHANGED <<service, selection>>
       \/ \E i \in 1..Len(services) :
            /\ prompts' = Append(prompts, Prompt("service", 0,
                 DefaultIdx(Names(services), DefaultService), "input", Some(i)))
            /\ ServiceChosen(services[i])
            /\ UNCHANGED <<file, exitVars>>
    /\ UNCHANGED <<defaults, ctxVars, nsVars, services, portVars, supVars>>

\* select_service: the fuzzy chooser
ServiceChoose ==
    /\ pc = "svc_choose"
    /\ log' = Append(log, "choose_service")
    /\ \/ /\ prompts' = Append(prompts, Prompt("service", 0,
                 DefaultIdx(Names(services), DefaultService), "abort", None))
          /\ Fail(Error("InvalidSelection"))
          /\ UNCHANGED <<service, selection>>
       \/ \E i \in 1..Len(services) :
            /\ prompts' = Append(prompts, Prompt("service", 0,
                 DefaultIdx(Names(services), DefaultService), "input", Some(i)))
            /\ ServiceChosen(services[i])
            /\ UNCHANGED exitVars
    /\ UNCHANGED <<storeVars, ctxVars, nsVars, services, portVars, supVars>>

(***************************************************************************)
(* main: the remote-port and local-port stages, saving                     *)
(***************************************************************************)
\* main.rs 198: default_ports borrows the chosen service's entry
DefaultPorts == selection.ports[service.name]

\* SelectionWithService::save: File::create(..).unwrap().write_all(..), and
\* the unwrap() of its result in main. Either the record is on disk, or
\* the file could not be created (left as it was), or it was truncated and
\* the write failed; the last two panic.
Save(sel, Saved) ==
    \/ file' = Serialize(sel) /\ log' = Append(log, "save") /\ Saved
    \/ UNCHANGED file /\ log' = Append(log, "save_failed") /\ Panic
    \/ file' = PlainFile("malformed") /\ log' = Append(log, "save_failed") /\ Panic

\* select_remote_ports
SelectRemotePorts ==
    /\ pc = "remote_ports"
    /\ LET items == PortItems(service, DefaultPorts) IN
       IF AsksRemotePorts(items)
       THEN /\ log' = Append(log, "choose_remote_ports")
            /\ \/ /\ prompts' = Append(prompts, Prompt("remote_ports",
                        items[1].port, IF items[1].checked THEN Some(1) ELSE None,
                        "abort", None))
                  /\ Fail(Error("InvalidSelection"))
                  /\ UNCHANGED remote_ports
               \/ \E picked \in SUBSET {1} :
                    /\ prompts' = Append(prompts, Prompt("remote_ports",
                          items[1].port, IF items[1].checked THEN Some(1) ELSE None,
                          "input", Some(Cardinality(picked))))
                    /\ remote_ports' = IF picked = {} THEN <<>> ELSE <<items[1].port>>
                    /\ pc' = "check_ports"
                    /\ UNCHANGED exitVars
       ELSE /\ remote_ports' = AllPorts(items)
            /\ pc' = "check_ports"
            /\ UNCHANGED <<exitVars, log, prompts>>
    /\ UNCHANGED <<storeVars, ctxVars, nsVars, svcVars, selection, ports_mapping,
                   forward_args, supVars>>

\* main.rs 206-211: no ports selected: save, print NoPorts, FAILURE
AbortNoPorts ==
    /\ pc = "check_ports"
    /\ remote_ports = <<>>
    /\ Save(selection, Fail(Error("NoPorts")))
    /\ UNCHANGED <<defaults, ctxVars, nsVars, svcVars, selection, portVars,
                   supVars, prompts>>

LocalPrompts == SelectSeq(prompts, LAMBDA q : q.stage = "local_port")

\* select_local_ports: one turn of the loop, the prompt for the next
\* selected remote port; after the last one the mapping is complete
SelectLocalPort ==
    /\ pc = "check_ports"
    /\ remote_ports /= <<>>
    /\ Len(LocalPrompts) < Len(remote_ports)
    /\ log' = Append(log, "prompt_local_port")
    /\ LET port == remote_ports[Len(LocalPrompts) + 1]
           dflt == LocalPortDefault(DefaultPorts, port)
       IN \/ /\ prompts' = Append(prompts, Prompt("local_port", port, dflt, "abort", None))
             /\ Fail(Error("InvalidSelection"))
             /\ UNCHANGED ports_mapping
          \/ /\ IsSome(dflt)
             /\ prompts' = Append(prompts, Prompt("local_port", port, dflt, "default", None))
             /\ ports_mapping' = MapInsert(ports_mapping, port, dflt[1])
             /\ UNCHANGED <<pc, exitVars>>
          \/ \E typed \in TypedPorts :
             /\ prompts' = Append(prompts, Prompt("local_port", port, dflt, "input", Some(typed)))
             /\ ports_mapping' = MapInsert(ports_mapping, port, typed)
             /\ UNCHANGED <<pc, exitVars>>
    /\ UNCHANGED <<storeVars, ctxVars, nsVars, svcVars, selection, remote_ports,
                   forward_args, supVars>>

\* Mutant of SaveSelection: the new mapping is merged into the old entry
SaveSelection_Merge ==
    /\ pc = "check_ports"
    /\ remote_ports /= <<>>
    /\ Len(LocalPrompts) = Len(remote_ports)
    /\ selection' = [selection EXCEPT
                        !.ports = MapInsert(selection.ports, service.name,
                                            ports_mapping @@ selection.ports[service.name])]
    /\ Save(selection', pc' = "forward" /\ UNCHANGED exitVars)
    /\ UNCHANGED <<defaults, ctxVars, nsVars, svcVars, portVars, supVars, prompts>>

\* main.rs 219-224: put the mapping into the record and save it
SaveSelection ==
    /\ pc = "check_ports"
    /\ remote_ports /= <<>>
    /\ Len(LocalPrompts) = Len(remote_ports)
    /\ selection' = [selection EXCEPT
                        !.ports = MapInsert(selection.ports, service.name, ports_mapping)]
    /\ Save(selection', pc' = "forward" /\ UNCHANGED exitVars)
    /\ UNCHANGED <<defaults, ctxVars, nsVars, svcVars, portVars, supVars, prompts>>

(***************************************************************************)
(* main: the forward supervisor                                            *)
(***************************************************************************)
\* Mutant of ForwardArgs: "<remote>:<local>"
ForwardArgs_Swapped(ports) == {<<remote, ports[remote]>> : remote \in DOMAIN ports}

\* kubectl::forward_ports: one "<local>:<remote>" argument per mapping entry
ForwardArgs(ports) == {<<ports[remote], remote>> : remote \in DOMAIN ports}

\* Mutant of StartForward: a failed spawn is not returned as an error
StartForward_FailContinues ==
    /\ pc = "forward"
    /\ log' = Append(log, "start_forward")
    /\ forward_args' = ForwardArgs(selection.ports[service.name])
    /\ \/ pc' = "set_handler" /\ UNCHANGED <<child, exitVars>>
       \/ child' = "running" /\ pc' = "set_handler" /\ UNCHANGED exitVars
    /\ UNCHANGED <<storeVars, ctxVars, nsVars, svcVars, selection, remote_ports,
                   ports_mapping, running, handler, hpc, pending, interrupts,
                   calls, prompts>>

\* main.rs 232-240: spawn the port-forward subprocess
StartForward ==
    /\ pc = "forward"
    /\ log' = Append(log, "start_forward")
    /\ forward_args' = ForwardArgs(selection.ports[service.name])
    /\ \/ Fail(Error("KubectlFailed")) /\ UNCHANGED child
       \/ child' = "running" /\ pc' = "set_handler" /\ UNCHANGED exitVars
    /\ UNCHANGED <<storeVars, ctxVars, nsVars, svcVars, selection, remote_ports,
                   ports_mapping, running, handler, hpc, pending, interrupts,
                   calls, prompts>>

\* main.rs 242-253: ctrlc::set_handler. On failure the closure that owns the
\* Child is dropped, which neither kills nor reaps the subprocess.
SetHandler ==
    /\ pc = "set_handler"
    /\ log' = Append(log, "set_handler")
    /\ \/ Fail(Error("CtrlC")) /\ UNCHANGED handler
       \/ handler' = TRUE /\ pc' = "poll" /\ UNCHANGED exitVars
    /\ UNCHANGED <<storeVars, ctxVars, nsVars, svcVars, selection, portVars,
                   child, running, hpc, pending, interrupts, calls, prompts>>

\* main.rs 256: running.load(); main.rs 260 when the flag is down
Poll ==
    /\ pc = "poll"
    /\ IF running
       THEN pc' = "sleep" /\ UNCHANGED <<exitVars, log>>
       ELSE /\ pc' = "done" /\ exit' = "success" /\ UNCHANGED err
            /\ log' = Append(log, "exit")
    /\ UNCHANGED <<storeVars, ctxVars, nsVars, svcVars, selection, portVars,
                   supVars, prompts>>

\* main.rs 257: thread::sleep(100 ms)
Sleep ==
    /\ pc = "sleep"
    /\ pc' = "poll"
    /\ UNCHANGED <<storeVars, ctxVars, nsVars, svcVars, selection, portVars,
                   exitVars, supVars, log, prompts>>

mainVars == <<storeVars, pc, ctxVars, nsVars, svcVars, selection, portVars,
              exitVars, log, prompts>>

\* The user presses Ctrl-C while the handler is installed: ctrlc queues
\* the signal for its handler thread.
Interrupt ==
    /\ handler /\ exit = "none"
    /\ interrupts < MaxInterrupts
    /\ interrupts' = interrupts + 1
    /\ pending' = pending + 1
    /\ UNCHANGED <<mainVars, child, running, handler, hpc, calls>>

\* The port-forward subprocess ends by itself (not reaped: a zombie)
ChildExit ==
    /\ child = "running" /\ exit = "none"
    /\ child' = "exited"
    /\ UNCHANGED <<mainVars, running, handler, hpc, pending, interrupts, calls>>

\* Child::kill: sends SIGKILL unless the child has already been waited for
\* (then it returns Ok(()) and sends nothing)
Kill(c) == IF c = "running" THEN "killed" ELSE c
SendsKill(c) == c \in {"running", "exited", "killed"}

\* main.rs 245: the handler thread takes a queued signal, forward_process.kill()
HandlerKill ==
    /\ hpc = "idle" /\ pending > 0 /\ exit = "none"
    /\ pending' = pending - 1
    /\ child' = Kill(child)
    /\ calls' = [calls EXCEPT !["kill"] = @ + 1,
                              !["sigkill"] = IF SendsKill(child) THEN @ + 1 ELSE @]
    /\ hpc' = "wait"
    /\ UNCHANGED <<mainVars, running, handler, interrupts>>

\* Mutant of HandlerWait: the handler does not wait for the killed child
HandlerWait_NoReap ==
    /\ hpc = "wait" /\ exit = "none"
    /\ hpc' = "print"
    /\ UNCHANGED <<mainVars, child, calls, running, handler, pending, interrupts>>

\* main.rs 246: forward_process.wait() reaps the child once
HandlerWait ==
    /\ hpc = "wait" /\ exit = "none"
    /\ child' = "reaped"
    /\ calls' = [calls EXCEPT !["wait"] = @ + 1,
                              !["reap"] = IF child /= "reaped" THEN @ + 1 ELSE @]
    /\ hpc' = "print"
    /\ UNCHANGED <<mainVars, running, handler, pending, interrupts>>

\* main.rs 247: eprintln!("Port-forward terminated successfully.")
HandlerPrint ==
    /\ hpc = "print" /\ exit = "none"
    /\ calls' = Called("notice")
    /\ hpc' = "store"
    /\ UNCHANGED <<mainVars, child, running, handler, pending, interrupts>>

\* main.rs 248: r1.store(false)
HandlerStore ==
    /\ hpc = "store" /\ exit = "none"
    /\ running' = FALSE
    /\ calls' = Called("store")
    /\ hpc' = "idle"
    /\ UNCHANGED <<mainVars, child, handler, pending, interrupts>>

Next ==
    \/ ReadDefaults
    \/ ContextGet \/ ContextCurrent \/ ContextChoose \/ ContextSet
    \/ NamespaceGet \/ NamespaceChoose
    \/ ServiceGet \/ ServiceChoose
    \/ SelectRemotePorts \/ AbortNoPorts \/ SelectLocalPort \/ SaveSelection
    \/ StartForward \/ SetHandler \/ Poll \/ Sleep
    \/ Interrupt \/ ChildExit
    \/ HandlerKill \/ HandlerWait \/ HandlerPrint \/ HandlerStore

Spec == Init /\ [][Next]_vars

\* The operating system schedules the main thread and the handler thread;
\* nothing obliges the user to interrupt or the subprocess to end.
FairSpec ==
    /\ Spec
    /\ WF_vars(Poll) /\ WF_vars(Sleep)
    /\ WF_vars(HandlerKill) /\ WF_vars(HandlerWait)
    /\ WF_vars(HandlerPrint) /\ WF_vars(HandlerStore)

TypeOK ==
    /\ exit \in {"none", "success", "failure", "panic"}
    /\ child \in {"none", "running", "exited", "killed", "reaped"}
    /\ hpc \in {"idle", "wait", "print", "store"}
    /\ pending \in 0..MaxInterrupts

(***************************************************************************)
(* Observations used by the properties                                     *)
(***************************************************************************)
InLog(op) == \E i \in 1..Len(log) : log[i] = op
PromptsOf(stage) == SelectSeq(prompts, LAMBDA q : q.stage = stage)

\* portsByService of the record loaded at startup (empty when there is none)
LoadedPorts ==
    IF IsSome(defaults) /\ IsSome(defaults[1].ports) THEN defaults[1].ports[1]
    ELSE EmptyMap

\* The user unchecked the only port of the service in the checklist
Deselected ==
    \E i \in 1..Len(prompts) :
        /\ prompts[i].stage = "remote_ports"
        /\ prompts[i].how = "input"
        /\ prompts[i].answer = Some(0)

(***************************************************************************)
(* Forward supervisor properties                                           *)
(***************************************************************************)
\* C1: an interrupt delivered while the handler is installed makes the
\* handler kill the subprocess, then wait for it, then print the notice,
\* then lower the flag, in that order; the poll loop then sees the flag and
\* the process exits with success. Whenever the process has exited with
\* success, the subprocess has been killed and reaped.
C1_InterruptKillsReapsThenExits ==
    /\ [](/\ Count("wait") <= Count("kill")
          /\ Count("notice") <= Count("wait")
          /\ Count("store") <= Count("notice")
          /\ Count("kill") <= Count("store") + 1
          /\ (hpc = "wait" => child /= "running")
          /\ (hpc \in {"print", "store"} => child = "reaped")
          /\ (~running => Count("store") >= 1 /\ child = "reaped"))
    /\ [](exit = "success" =>
            /\ ~running
            /\ child = "reaped"
            /\ Count("sigkill") = 1 /\ Count("reap") = 1
            /\ Count("notice") >= 1)
    /\ ((handler /\ interrupts > 0) ~> (exit = "success"))

C1_Witness ==
    /\ exit = "success" /\ interrupts = 1
    /\ child = "reaped" /\ Count("notice") = 1 /\ ~running

\* C2: over any sequence of interrupts of one run, the subprocess is
\* killed and reaped at most once, and a second interrupt has no further
\* effect: no second termination notice.
C2_HandlerIdempotent ==
    /\ Count("sigkill") <= 1
    /\ Count("reap") <= 1
    /\ Count("notice") <= 1

\* C3: when the subprocess ends by itself and no interrupt is delivered,
\* the poll loop ends and the process exits with success.
C3_ChildExitEndsRun ==
    (child = "exited" /\ pc \in {"poll", "sleep"} /\ interrupts = 0)
        ~> (exit = "success" \/ interrupts > 0)

\* C4: once the subprocess has been started, the process exits only after
\* the subprocess has ended.
C4_ExitOnlyAfterChildEnded ==
    (exit /= "none" /\ child /= "none") => child \in {"exited", "killed", "reaped"}

(***************************************************************************)
(* Selection pipeline properties                                           *)
(***************************************************************************)
\* C5: in the context, namespace and service stages, a fetched list of
\* exactly one element makes the stage succeed with that element without
\* the chooser being invoked (and, for contexts, without setContext).
C5_SingleOptionSkipsChooser ==
    /\ Len(contexts) = 1 =>
          /\ PromptsOf("context") = <<>>
          /\ ~InLog("choose_context") /\ ~InLog("set_context")
          /\ pc \notin {"ctx_get", "ctx_choose", "ctx_set"}
          /\ err.kind /= "NoContext"
          /\ (InLog("current_context") => pc = "ns_get" \/ InLog("get_namespaces"))
    /\ Len(namespaces) = 1 =>
          /\ PromptsOf("namespace") = <<>>
          /\ ~InLog("choose_namespace")
          /\ namespace = namespaces[1]
          /\ selection.namespace = namespaces[1].name
          /\ err.kind /= "NoNamespace"
          /\ (pc = "svc_get" \/ InLog("get_services"))
    /\ Len(services) = 1 =>
          /\ PromptsOf("service") = <<>>
          /\ ~InLog("choose_service")
          /\ service = services[1]
          /\ selection.last_service = services[1].name
          /\ err.kind /= "NoService"
          /\ pc \notin {"svc_get", "svc_choose"}

C5_Witness ==
    /\ Len(contexts) = 1 /\ Len(namespaces) = 1 /\ Len(services) = 1
    /\ service = Web /\ namespace = Ns("dev")
    /\ prompts = <<>>
    /\ pc = "remote_ports"

\* C6: for a service with more than one port the remote-port stage yields
\* all its ports in the service's order, asks nothing, and the result is
\* the same whatever the persisted mapping of the service holds.
C6_MultiPortSelectsAll ==
    (Len(service.ports) > 1 /\ pc /= "remote_ports") =>
        /\ remote_ports = service.ports
        /\ PromptsOf("remote_ports") = <<>>
        /\ ~InLog("choose_remote_ports")

C6_Witness ==
    /\ service = Api /\ pc = "check_ports"
    /\ "api" \in DOMAIN LoadedPorts
    /\ DOMAIN LoadedPorts["api"] = {8080}
    /\ remote_ports = <<8080, 9090>>

LocalPromptsFor(p) == SelectSeq(prompts, LAMBDA q : q.stage = "local_port" /\ q.port = p)

\* What the record loaded at startup maps remote port p to under service s
LoadedLocalPort(s, p) ==
    IF s \in DOMAIN LoadedPorts /\ p \in DOMAIN LoadedPorts[s]
    THEN Some(LoadedPorts[s][p]) ELSE None

\* C8: the local-port prompt for a selected remote port P of the chosen
\* service S has default L exactly when the record loaded at startup maps
\* P to L under S, and no default otherwise; the new mapping has P -> L
\* when the default was accepted and the typed number only when the user
\* typed one. With {api: {8080: 9090}} persisted and api exposing 8080 and
\* 9090, the prompt for 8080 defaults to 9090 and that for 9090 has none.
C8_LocalPortDefaulting ==
    /\ \A i \in 1..Len(prompts) :
          prompts[i].stage = "local_port" =>
             /\ prompts[i].default = LoadedLocalPort(service.name, prompts[i].port)
             /\ prompts[i].how = "default" => IsSome(prompts[i].default)
    /\ \A i \in 1..Len(LocalPrompts) : LocalPrompts[i].port = remote_ports[i]
    /\ DOMAIN ports_mapping =
          {LocalPrompts[i].port : i \in {j \in 1..Len(LocalPrompts) :
                                             LocalPrompts[j].how /= "abort"}}
    /\ \A p \in DOMAIN ports_mapping :
          LET qs   == SelectSeq(LocalPromptsFor(p), LAMBDA q : q.how /= "abort")
              last == qs[Len(qs)]
          IN ports_mapping[p] = IF last.how = "default"
                                THEN LoadedLocalPort(service.name, p)[1]
                                ELSE last.answer[1]
    /\ (/\ service = Api
        /\ LoadedLocalPort("api", 8080) = Some(9090)
        /\ LoadedLocalPort("api", 9090) = None) =>
          /\ \A i \in 1..Len(LocalPromptsFor(8080)) :
                LocalPromptsFor(8080)[i].default = Some(9090)
          /\ \A i \in 1..Len(LocalPromptsFor(9090)) :
                LocalPromptsFor(9090)[i].default = None

C8_Witness ==
    /\ service = Api
    /\ LoadedLocalPort("api", 8080) = Some(9090)
    /\ LoadedLocalPort("api", 9090) = None
    /\ Len(LocalPrompts) = 2
    /\ LocalPrompts[1].port = 8080 /\ LocalPrompts[1].default = Some(9090)
    /\ LocalPrompts[1].how = "default"
    /\ LocalPrompts[2].port = 9090 /\ LocalPrompts[2].default = None
    /\ LocalPrompts[2].how = "input"
    /\ ports_mapping = [p \in {8080, 9090} |-> IF p = 8080 THEN 9090 ELSE 3000]

(***************************************************************************)
(* Preference store properties                                             *)
(***************************************************************************)
\* A preference file that is absent, cannot be opened, is no JSON, or is
\* JSON that does not fit the record (a port key or local port that is no
\* u16)
Unusable(f) ==
    \/ f.kind \in {"absent", "unreadable", "malformed"}
    \/ /\ f.kind = "json" /\ IsSome(f.body.ports)
       /\ \E s \in DOMAIN f.body.ports[1] : \E k \in DOMAIN f.body.ports[1][s] :
             \/ k[1] = 0 /\ Len(k) > 1
             \/ f.body.ports[1][s][k] > 65535

\* The file on disk is still the one found at startup
NotYetSaved == ~InLog("save") /\ ~InLog("save_failed")

\* C9: an absent, unreadable or malformed preference file loads as the
\* empty record without any error, and the run goes through the pipeline
\* as a first run does: no namespace default, no lastService default, no
\* persisted port mapping.
C9_UnusableFileLoadsEmpty ==
    (Unusable(file) /\ NotYetSaved /\ pc /= "read") =>
        /\ defaults = None
        /\ (Len(log) = 1 => pc = "ctx_get" /\ exit = "none")
        /\ \A i \in 1..Len(prompts) :
              prompts[i].stage /= "context" => prompts[i].default = None
        /\ \A s \in DOMAIN selection.ports : s = service.name
        /\ (service.name \in DOMAIN selection.ports =>
               selection.ports[service.name] = EmptyMap)

C9_Witness ==
    /\ file.kind = "json" /\ Unusable(file) /\ NotYetSaved
    /\ Len(PromptsOf("namespace")) = 1 /\ Len(PromptsOf("service")) = 1
    /\ service = Api
    /\ Len(LocalPrompts) = 2 /\ pc = "check_ports"

\* C10: on a run that writes the preference file, the entry written for
\* every service other than the chosen one is the entry of the record
\* loaded at startup, none dropped, none altered, none added; reading the
\* written file back yields those entries again.
C10_UntouchedEntriesSurvive ==
    InLog("save") =>
        /\ IsSome(Read(file)) /\ IsSome(Read(file)[1].ports)
        /\ LET written == Read(file)[1].ports[1]
           IN /\ (DOMAIN written) \ {service.name} = (DOMAIN LoadedPorts) \ {service.name}
              /\ \A s \in (DOMAIN LoadedPorts) \ {service.name} :
                    written[s] = LoadedPorts[s]
        /\ \A s \in (DOMAIN LoadedPorts) \ {service.name} :
              /\ s \in DOMAIN file.body.ports[1]
              /\ DOMAIN file.body.ports[1][s] = {U16ToString(p) : p \in DOMAIN LoadedPorts[s]}
              /\ \A p \in DOMAIN LoadedPorts[s] :
                    file.body.ports[1][s][U16ToString(p)] = LoadedPorts[s][p]

C10_Witness ==
    /\ InLog("save") /\ InLog("start_forward")
    /\ service = Api
    /\ DOMAIN LoadedPorts = {"api", "old"}
    /\ DOMAIN file.body.ports[1] = {"api", "old"}
    /\ file.body.ports[1]["old"] = [k \in {<<1>>} |-> 2]
    /\ file.body.ports[1]["api"] /= [k \in {<<9, 0, 9, 0>>} |-> 3000]

(***************************************************************************)
(* Error handling properties                                               *)
(***************************************************************************)
\* The error kinds of MainError
Taxonomy ==
    {"NoContext", "NoNamespace", "NoService", "NoPorts", "InvalidSelection",
     "KubectlFailed", "IOError", "CtrlC"}

\* C11: every failure of the external tool, of the interactive layer or of
\* saving the record ends the run with one of the error kinds printed and a
\* failure exit status; no failure is swallowed or ends the run otherwise.
C11_EveryFailureSurfaces ==
    /\ exit /= "panic"
    /\ (exit = "failure" => err.kind \in Taxonomy)
    /\ (InLog("current_context_failed") =>
            pc = "done" /\ exit = "failure" /\ err.kind = "KubectlFailed")
    /\ (InLog("save_failed") =>
            pc = "done" /\ exit = "failure" /\ err.kind = "IOError")

\* The service stage is over and the remote-port stage has run
RemotePortsDone == service.name /= "" /\ pc /= "remote_ports"

C13_KeysAreForwardedServices ==
    (DOMAIN LoadedPorts = {} /\ InLog("save") /\ pc /= "forward") =>
        LET written == Read(file)[1].ports[1]
        IN /\ \A s \in DOMAIN written :
                 /\ s = service.name /\ InLog("start_forward")
                 /\ \A p \in DOMAIN written[s] :
                       \E i \in 1..Len(remote_ports) : remote_ports[i] = p
           /\ (err.kind = "NoPorts" => DOMAIN written = {})

\* The local port entered at a prompt: the default when it was accepted,
\* else the number typed
Entered(q) == IF q.how = "default" THEN q.default[1] ELSE q.answer[1]

\* C14: after a run that completes the local-port stage for service S and
\* saves, the persisted portsByService[S] is exactly the new mapping: its
\* keys are the remote ports selected in this run, each mapped to the local
\* port entered for it (the last one entered when a port occurs twice);
\* remote ports of the previously persisted mapping that were not selected
\* are gone.
C14_EntryReplaced ==
    (InLog("save") /\ remote_ports /= <<>>) =>
        LET written == Read(file)[1].ports[1]
        IN /\ service.name \in DOMAIN written
           /\ DOMAIN written[service.name] =
                 {remote_ports[i] : i \in 1..Len(remote_ports)}
           /\ \A p \in DOMAIN written[service.name] :
                 LET qs == LocalPromptsFor(p)
                 IN written[service.name][p] = Entered(qs[Len(qs)])
           /\ service.name \in DOMAIN LoadedPorts =>
                 \A p \in DOMAIN LoadedPorts[service.name] :
                    (\A i \in 1..Len(remote_ports) : remote_ports[i] /= p)
                        => p \notin DOMAIN written[service.name]

C14_Witness ==
    /\ InLog("save") /\ service = Web /\ remote_ports = <<80>>
    /\ "web" \in DOMAIN LoadedPorts
    /\ DOMAIN LoadedPorts["web"] = {80, 443}
    /\ file.body.ports[1]["web"] = [k \in {<<8, 0>>} |-> 9090]

(***************************************************************************)
(* Pipeline order properties                                               *)
(***************************************************************************)
\* The stage an operation of the log belongs to, in the order of main
Rank(op) ==
    CASE op = "read" -> 0
      [] op \in {"get_contexts", "current_context", "current_context_failed",
                 "choose_context", "set_context"} -> 1
      [] op \in {"get_namespaces", "choose_namespace"} -> 2
      [] op \in {"get_services", "choose_service"} -> 3
      [] op = "choose_remote_ports" -> 4
      [] op = "prompt_local_port" -> 5
      [] op \in {"save", "save_failed"} -> 6
      [] op = "start_forward" -> 7
      [] op = "set_handler" -> 8
      [] OTHER -> 9

LastOp == log[Len(log)]

\* C15: the pipeline is strictly gated. An empty context, namespace or
\* service list ends the run with NoContext, NoNamespace or
\* NoService(chosen namespace); after a failed stage nothing more is done
\* (no query, no chooser, no forward) and the exit status is a failure;
\* the stages occur in the order context, namespace, service, remote
\* ports, local ports, forward.
C15_StrictlyGated ==
    /\ [](/\ \A i, j \in 1..Len(log) : i < j => Rank(log[i]) <= Rank(log[j])
          /\ (InLog("get_contexts") /\ contexts = <<>>) =>
                /\ pc = "done" /\ exit = "failure" /\ LastOp = "get_contexts"
                /\ err.kind \in {"NoContext", "KubectlFailed"}
          /\ (InLog("get_namespaces") /\ namespaces = <<>>) =>
                /\ pc = "done" /\ exit = "failure" /\ LastOp = "get_namespaces"
                /\ err.kind \in {"NoNamespace", "KubectlFailed"}
          /\ (InLog("get_services") /\ services = <<>>) =>
                /\ pc = "done" /\ exit = "failure" /\ LastOp = "get_services"
                /\ err.kind \in {"NoService", "KubectlFailed"}
          /\ err.kind = "NoContext" => contexts = <<>> /\ LastOp = "get_contexts"
          /\ err.kind = "NoNamespace" => namespaces = <<>> /\ LastOp = "get_namespaces"
          /\ err.kind = "NoService" =>
                /\ services = <<>> /\ LastOp = "get_services"
                /\ err.arg = namespace.name
                /\ \E i \in 1..Len(namespaces) : namespaces[i] = namespace
          /\ InLog("get_namespaces") => contexts /= <<>>
          /\ InLog("get_services") => namespaces /= <<>>
          /\ (InLog("choose_remote_ports") \/ InLog("prompt_local_port")
                \/ InLog("start_forward")) =>
                \E i \in 1..Len(services) : services[i] = service
          /\ InLog("start_forward") => InLog("save") /\ remote_ports /= <<>>
          /\ (exit \in {"failure", "panic"} /\ LastOp /= "set_handler") =>
                child = "none" /\ ~handler
          /\ exit /= "none" => pc = "done")
    /\ [][pc = "done" => /\ pc' = "done" /\ exit' = exit /\ log' = log
                         /\ prompts' = prompts /\ child' = child
                         /\ file' = file]_vars

C15_Witness ==
    /\ err = [kind |-> "NoService", arg |-> "prod"]
    /\ exit = "failure" /\ pc = "done"
    /\ Len(PromptsOf("context")) = 1 /\ Len(PromptsOf("namespace")) = 1
    /\ log = <<"read", "get_contexts", "current_context", "choose_context",
               "set_context", "get_namespaces", "choose_namespace",
               "get_services">>

(***************************************************************************)
(* Chooser defaulting                                                      *)
(***************************************************************************)
\* The default of chooser prompt q is the option equal to the wanted value
\* when that value is among the options, and absent otherwise
DefaultIsWanted(q, options, wanted) ==
    /\ IsSome(q.default) <=>
          (IsSome(wanted) /\ \E i \in 1..Len(options) : options[i] = wanted[1])
    /\ IsSome(q.default) =>
          /\ q.default[1] \in 1..Len(options)
          /\ options[q.default[1]] = wanted[1]

\* C16: a namespace (service, context) chooser has a default exactly when
\* the persisted namespace (persisted lastService, reported current
\* context) is one of the options fetched in this run, and the default is
\* that option; a persisted value that is not among the options gives no
\* default and is never what the stage selects.
C16_ChooserDefaulting ==
    /\ \A i \in 1..Len(prompts) :
          /\ prompts[i].stage = "namespace" =>
                DefaultIsWanted(prompts[i], Names(namespaces), DefaultNamespace)
          /\ prompts[i].stage = "service" =>
                DefaultIsWanted(prompts[i], Names(services), DefaultService)
          /\ prompts[i].stage = "context" =>
                DefaultIsWanted(prompts[i], contexts, Some(current_ctx))
    /\ (namespace.name /= "" /\ IsSome(DefaultNamespace)
          /\ \A i \in 1..Len(namespaces) : namespaces[i].name /= DefaultNamespace[1])
          => namespace.name /= DefaultNamespace[1]
    /\ (service.name /= "" /\ IsSome(DefaultService)
          /\ \A i \in 1..Len(services) : services[i].name /= DefaultService[1])
          => service.name /= DefaultService[1]
    /\ \A i \in 1..Len(prompts) :
          (prompts[i].how = "input" /\ prompts[i].stage = "namespace")
              => namespace = namespaces[prompts[i].answer[1]]
    /\ \A i \in 1..Len(prompts) :
          (prompts[i].how = "input" /\ prompts[i].stage = "service")
              => service = services[prompts[i].answer[1]]

C16_Witness ==
    /\ DefaultNamespace = Some("dev") /\ DefaultService = Some("api")
    /\ namespaces = <<Ns("dev"), Ns("prod")>> /\ services = <<Dns, Web>>
    /\ current_ctx = "c2" /\ contexts = <<"c1", "c2">>
    /\ Len(prompts) = 3
    /\ prompts[1].default = Some(2)
    /\ prompts[2].default = Some(1)
    /\ prompts[3].default = None /\ prompts[3].how = "input"

(***************************************************************************)
(* Starting the forward, and writing the preference file                   *)
(***************************************************************************)
\* C17: when startForward fails the run ends at once with KubectlFailed
\* and a failure status: no interrupt handler is installed, the poll loop
\* is never entered and there is no subprocess.
C17_FailedStartExits ==
    (InLog("start_forward") /\ child = "none") =>
        /\ pc = "done" /\ exit = "failure" /\ err.kind = "KubectlFailed"
        /\ LastOp = "start_forward"
        /\ ~handler /\ ~InLog("set_handler")
        /\ running /\ hpc = "idle" /\ interrupts = 0 /\ calls = NoCalls

C17_Witness ==
    /\ InLog("start_forward") /\ child = "none"
    /\ err.kind = "KubectlFailed" /\ exit = "failure"
    /\ InLog("save") /\ forward_args /= {}

\* The operations of the log equal to op
Occurrences(op) == {i \in 1..Len(log) : log[i] = op}

\* C18: at most one forwarding subprocess is started per run, only after
\* the preference record has been written, and with exactly the mapping
\* persisted for the chosen service in that write: one local:remote
\* argument per entry of a non-empty mapping.
C18_ForwardAfterSaveWithSavedMapping ==
    /\ Cardinality(Occurrences("start_forward")) <= 1
    /\ (child /= "none" => InLog("start_forward"))
    /\ (~InLog("start_forward") => forward_args = {})
    /\ InLog("start_forward") =>
          /\ \E i \in Occurrences("save") :
                \A j \in Occurrences("start_forward") : i < j
          /\ Cardinality(Occurrences("save")) = 1 /\ ~InLog("save_failed")
          /\ LET saved == Read(file)[1].ports[1][service.name]
             IN /\ DOMAIN saved /= {}
                /\ forward_args = {<<saved[r], r>> : r \in DOMAIN saved}
                /\ Cardinality(forward_args) = Cardinality(DOMAIN saved)

C18_Witness ==
    /\ child = "running" /\ service = Api
    /\ forward_args = {<<9090, 8080>>, <<3000, 9090>>}
    /\ file.body.ports[1]["api"] =
          [k \in {<<8, 0, 8, 0>>, <<9, 0, 9, 0>>} |->
              IF k = <<8, 0, 8, 0>> THEN 9090 ELSE 3000]

\* C19: the preference file is written at most once per run, and a run
\* that fails in the context, namespace or service stage, or in which a
\* chooser or local-port prompt is aborted, leaves the file as it was:
\* neither the chosen namespace nor the chosen service is persisted.
C19_FileWrittenOnceNotOnEarlyFailure ==
    /\ [](/\ Cardinality(Occurrences("save") \cup Occurrences("save_failed")) <= 1
          /\ (\/ err.kind \in {"NoContext", "NoNamespace", "NoService",
                               "InvalidSelection"}
              \/ (err.kind = "KubectlFailed" /\ ~InLog("start_forward"))
              \/ (exit = "panic" /\ LastOp = "set_context"))
                => NotYetSaved)
    /\ [][NotYetSaved' => file' = file]_vars
    /\ [][file' /= file => NotYetSaved /\ ~NotYetSaved']_vars

C19_Witness ==
    /\ err.kind = "InvalidSelection" /\ LastOp = "prompt_local_port"
    /\ namespace = Ns("prod") /\ service = Api
    /\ file.kind = "json" /\ file.body.namespace = Some("dev")
    /\ file.body.lastService = Some("web")
    /\ NotYetSaved

====
